---- MODULE Spec2Model ----
(***************************************************************************)
(* CareerCompass AI agent (ai-agent/main.py): the FastAPI service with     *)
(* GET /health and POST /api/analyze-career.  The analysis handler fetches *)
(* a user's financial data from the mock data API, sends a prompt to the   *)
(* generative model (a synchronous call made on the event loop), extracts  *)
(* JSON from the model text and returns an envelope.                     *)
(*                                                                         *)
(* Text is modelled as a sequence of tokens.  Each token stands for a      *)
(* fixed piece of concrete text; only FENCE contains backticks and only    *)
(* JSONLABEL contains the letter j, so an occurrence of the fence or of    *)
(* the fence followed by json in the concrete text is exactly an           *)
(* occurrence of <<FENCE>> or <<FENCE, JSONLABEL>> in the token sequence.  *)
(***************************************************************************)
EXTENDS Integers, Sequences, FiniteSets, TLC

\* ------------------------------------------------------------------ bounds
\* Model texts are concatenations of at most MaxSegs segments.
MaxSegs == 3
\* Concurrent POST /api/analyze-career requests and GET /health requests.
NumReqs == 2
NumHealth == 1

\* ------------------------------------------------------------------ tokens
\* the three-backtick code fence delimiter
FENCE == "<fence>"
JSONLABEL == "json"
\* a JSON object of the CareerRecommendation shape
RECTOK == "{primaryGoal:.., recommendedSkills:.., suggestedCourses:.., financialAdvice:.., nextSteps:..}"
\* valid JSON that is not of the recommendation shape
NUMTOK == "42"
OBJTOK == "{a: 1}"
\* prose: not JSON
PROSETOK == "Sure, here is the advice"
\* whitespace
WSTOK == "\n"

Tokens == {FENCE, JSONLABEL, RECTOK, NUMTOK, OBJTOK, PROSETOK, WSTOK}

\* ------------------------------------------------------------ JSON values
\* Parsed JSON values are tagged records so that values of different JSON
\* types can be compared.
NoValue == [t |-> "none"]
JNum(k) == [t |-> "number", digits |-> k]
JObj(f) == [t |-> "object", fields |-> f]

RecValue ==
  JObj([primaryGoal |-> "Become a data analyst",
        recommendedSkills |-> <<"SQL">>,
        suggestedCourses |-> <<>>,
        financialAdvice |-> "Save 10%",
        nextSteps |-> <<"Apply">>])

OtherObjValue == JObj([a |-> 1])

RecFields ==
  {"primaryGoal", "recommendedSkills", "suggestedCourses", "financialAdvice", "nextSteps"}

\* The fields of class CareerRecommendation.
IsRecommendationShape(v) ==
  /\ v.t = "object"
  /\ DOMAIN v.fields = RecFields

\* The hardcoded fallback recommendation.
Fallback ==
  JObj([primaryGoal |-> "Build technical skills for career advancement",
        recommendedSkills |-> <<"Data Analysis", "Python Programming", "Communication">>,
        suggestedCourses |->
          << [name |-> "Python for Data Science", provider |-> "Coursera", estimatedCost |-> "$49"],
             [name |-> "Excel to Python", provider |-> "Udemy", estimatedCost |-> "$85"] >>,
        financialAdvice |-> "Consider allocating 15% of income to skill development",
        nextSteps |-> << "Start with one online course this month",
                         "Set up a dedicated learning budget",
                         "Track progress weekly" >>])

\* ------------------------------------------------------- string operations
\* pat occurs in s at position i
OccursAt(s, pat, i) ==
  /\ i >= 1
  /\ i + Len(pat) - 1 <= Len(s)
  /\ SubSeq(s, i, i + Len(pat) - 1) = pat

\* Python: pat in s
Contains(s, pat) == \E i \in 1..Len(s) : OccursAt(s, pat, i)

\* position of the first occurrence of pat in s, 0 when there is none
Find(s, pat) ==
  IF Contains(s, pat)
  THEN CHOOSE i \in 1..Len(s) :
         /\ OccursAt(s, pat, i)
         /\ \A k \in 1..(i - 1) : ~OccursAt(s, pat, k)
  ELSE 0

\* Python s.split(pat)[0]: the text before the first occurrence of pat,
\* the whole text when pat does not occur.
SplitHead(s, pat) ==
  IF Find(s, pat) = 0 THEN s ELSE SubSeq(s, 1, Find(s, pat) - 1)

\* the text after the first occurrence of pat (pat occurs in s)
AfterFirst(s, pat) == SubSeq(s, Find(s, pat) + Len(pat), Len(s))

\* Python s.split(pat)[1] for s containing pat: the text between the first
\* occurrence of pat and the next one (or the end of the text).
SplitSecond(s, pat) == SplitHead(AfterFirst(s, pat), pat)

\* Lines 101-104 with the two tests in the other order.
ExtractTextOrderBug(ai_text) ==
  IF Contains(ai_text, <<FENCE>>)
  THEN SplitHead(SplitSecond(ai_text, <<FENCE>>), <<FENCE>>)
  ELSE ai_text

\* Lines 101-104 with the json branch not cut at the closing fence.
ExtractTextNoClose(ai_text) ==
  IF Contains(ai_text, <<FENCE, JSONLABEL>>)
  THEN AfterFirst(ai_text, <<FENCE, JSONLABEL>>)
  ELSE IF Contains(ai_text, <<FENCE>>)
       THEN SplitHead(SplitSecond(ai_text, <<FENCE>>), <<FENCE>>)
       ELSE ai_text

\* Lines 101-104: removal of markdown code block formatting.
ExtractText(ai_text) ==
  IF Contains(ai_text, <<FENCE, JSONLABEL>>)
  THEN SplitHead(SplitSecond(ai_text, <<FENCE, JSONLABEL>>), <<FENCE>>)
  ELSE IF Contains(ai_text, <<FENCE>>)
       THEN SplitHead(SplitSecond(ai_text, <<FENCE>>), <<FENCE>>)
       ELSE ai_text

\* ----------------------------------------------------------- json.loads
RECURSIVE StripLeft(_)
StripLeft(s) ==
  IF s # <<>> /\ Head(s) = WSTOK THEN StripLeft(Tail(s)) ELSE s

RECURSIVE StripRight(_)
StripRight(s) ==
  IF s # <<>> /\ s[Len(s)] = WSTOK THEN StripRight(SubSeq(s, 1, Len(s) - 1)) ELSE s

\* json.loads skips whitespace around the one value it reads.
Strip(s) == StripRight(StripLeft(s))

\* json.loads(s): the parsed value, or NoValue where it raises
\* JSONDecodeError.  A run of NUMTOK tokens is one number ("4242"); any
\* other concatenation of two or more tokens is not one JSON value.
JsonLoads(s) ==
  LET c == Strip(s) IN
    IF c = <<>> THEN NoValue
    ELSE IF \A i \in 1..Len(c) : c[i] = NUMTOK THEN JNum(Len(c))
    ELSE IF Len(c) # 1 THEN NoValue
    ELSE IF c[1] = RECTOK THEN RecValue
    ELSE IF c[1] = OBJTOK THEN OtherObjValue
    ELSE NoValue

\* Lines 106-123 without the fallback.
RecommendationNoFallback(ai_text) == JsonLoads(ai_text)

\* Lines 106-123: the recommendation parsed from the extracted text, the
\* fallback where json.loads raises JSONDecodeError.
Recommendation(ai_text) ==
  IF JsonLoads(ai_text) = NoValue THEN Fallback ELSE JsonLoads(ai_text)

\* ------------------------------------------------------------ model texts
\* Segments a model text is built from: single tokens, and well-formed
\* fenced blocks (labelled json or unlabelled) around a content token.
BlockContents == {RECTOK, PROSETOK}

Segments ==
  {<<tok>> : tok \in Tokens}
    \cup {<<FENCE, JSONLABEL, WSTOK, c, WSTOK, FENCE>> : c \in BlockContents}
    \cup {<<FENCE, WSTOK, c, WSTOK, FENCE>> : c \in BlockContents}

RECURSIVE Flatten(_)
Flatten(ss) == IF ss = <<>> THEN <<>> ELSE Head(ss) \o Flatten(Tail(ss))

\* every text made of at most MaxSegs segments
Texts ==
  {Flatten(ss) : ss \in UNION {[1..n -> Segments] : n \in 0..MaxSegs}}

\* the texts the model answers with when several requests are in flight
ConcurrentTexts ==
  { <<FENCE, JSONLABEL, WSTOK, RECTOK, WSTOK, FENCE>>,
    <<PROSETOK>> }

\* ------------------------------------------------------------ upstream data
PromptFields ==
  <<"name", "profile", "monthlyIncome", "careerStage",
    "spendingCategories", "recentTransactions", "goals">>

PromptFieldSet == {PromptFields[i] : i \in 1..Len(PromptFields)}

UserIds == {"u1", "u2"}
Profiles == {"Junior Analyst", "Freelance Designer"}

\* a complete financial-data object with the given profile
FullData(profile) ==
  [f \in PromptFieldSet |->
     CASE f = "name" -> "Alex"
       [] f = "profile" -> profile
       [] f = "monthlyIncome" -> "4200"
       [] f = "careerStage" -> "early"
       [] f = "spendingCategories" -> "{food: 400}"
       [] f = "recentTransactions" -> "[rent]"
       [] f = "goals" -> "save, learn"]

\* the object without field f
Without(data, f) == [g \in (DOMAIN data) \ {f} |-> data[g]]

\* Response bodies of the mock data API.
Bodies ==
  {[kind |-> "notjson"], [kind |-> "array"]}
    \cup {[kind |-> "object", data |-> FullData(p)] : p \in Profiles}
    \cup {[kind |-> "object", data |-> Without(FullData("Junior Analyst"), f)] :
            f \in {"name", "goals"}}

Statuses == {200, 204, 404}

\* What the GET can end with: a transport error (connection refused,
\* timeout) or a response.
UpstreamOutcomes ==
  {[kind |-> "error", msg |-> "All connection attempts failed"]}
    \cup {[kind |-> "response", status |-> s, body |-> b] : s \in Statuses, b \in Bodies}

\* the outcomes of the GET when several requests are in flight
ConcurrentUpstreamOutcomes ==
  { [kind |-> "error", msg |-> "All connection attempts failed"],
    [kind |-> "response", status |-> 404, body |-> [kind |-> "notjson"]],
    [kind |-> "response", status |-> 204,
     body |-> [kind |-> "object", data |-> FullData("Junior Analyst")]],
    [kind |-> "response", status |-> 200, body |-> [kind |-> "notjson"]],
    [kind |-> "response", status |-> 200,
     body |-> [kind |-> "object", data |-> Without(FullData("Junior Analyst"), "goals")]] }
    \cup {[kind |-> "response", status |-> 200,
           body |-> [kind |-> "object", data |-> FullData(p)]] : p \in Profiles}

\* What generate_content and response.text can end with: generate_content
\* raises (network, auth), response.text raises ValueError (no text part in
\* the response), or the text.
ModelOutcomes(texts) ==
  { [kind |-> "raise", msg |-> "503 Service Unavailable"],
    [kind |-> "notext", msg |-> "response.text quick accessor only works for simple text responses"] }
    \cup {[kind |-> "text", text |-> t] : t \in texts}

None == [kind |-> "none"]

\* -------------------------------------------------------------------- state
Reqs == 1..NumReqs
Healths == 1..NumHealth

VARIABLES
  pc,          \* per analysis request: where its handler is
  userId,      \* request.userId
  upstream,    \* what the GET of the request ended with
  user_data,   \* response.json() of the request
  prompt,      \* the prompt the request sent to the model
  modelOut,    \* what the model call of the request ended with
  ai_text,     \* the text the request handed to json.loads
  resp,        \* the HTTP response sent to the caller
  gets,        \* number of upstream GETs the request issued
  modelCalls,  \* number of generate_content calls the request issued
  running,     \* the request whose synchronous model call holds the event loop, 0 for none
  hpc,         \* per health request: "idle", "arrived", "done"
  hresp,       \* the response to the health request
  notFoundStr  \* str(e) of the HTTPException of line 57 in the installed Starlette

vars ==
  <<pc, userId, upstream, user_data, prompt, modelOut, ai_text, resp,
    gets, modelCalls, running, hpc, hresp, notFoundStr>>

reqVars ==
  <<pc, userId, upstream, user_data, prompt, modelOut, ai_text, resp,
    gets, modelCalls, running, notFoundStr>>

\* str(e) of the HTTPException raised on line 57.  Starlette gives
\* "404: User data not found" where HTTPException defines __str__ and the
\* empty string where it does not.
NotFoundStrs == {"404: User data not found", ""}

Init ==
  /\ pc = [r \in Reqs |-> "idle"]
  /\ userId = [r \in Reqs |-> ""]
  /\ upstream = [r \in Reqs |-> None]
  /\ user_data = [r \in Reqs |-> None]
  /\ prompt = [r \in Reqs |-> <<>>]
  /\ modelOut = [r \in Reqs |-> None]
  /\ ai_text = [r \in Reqs |-> <<>>]
  /\ resp = [r \in Reqs |-> None]
  /\ gets = [r \in Reqs |-> 0]
  /\ modelCalls = [r \in Reqs |-> 0]
  /\ running = 0
  /\ hpc = [h \in Healths |-> "idle"]
  /\ hresp = [h \in Healths |-> None]
  /\ notFoundStr \in NotFoundStrs

\* ---------------------------------------------------------------- responses
\* FastAPI renders a raised HTTPException as a response with its status
\* code and detail.
HttpError(status, detail) == [kind |-> "error", status |-> status, detail |-> detail]

\* Lines 133-134 with a wrong status code.
AnalysisFailedBadGateway(msg) == HttpError(502, "Analysis failed: " \o msg)

\* Lines 133-134: except Exception as e: raise HTTPException(500, ...).
AnalysisFailed(msg) == HttpError(500, "Analysis failed: " \o msg)

\* Lines 125-131 with the userId of another request slot.
EnvelopeSharedUser(uid, profile, recommendation) ==
  [kind |-> "envelope", status |-> 200, success |-> TRUE,
   userId |-> userId[1], userProfile |-> profile,
   analysis |-> recommendation, confidence |-> "high"]

\* Lines 125-131: the returned envelope.
Envelope(uid, profile, recommendation) ==
  [kind |-> "envelope", status |-> 200, success |-> TRUE,
   userId |-> uid, userProfile |-> profile,
   analysis |-> recommendation, confidence |-> "high"]

\* The body of GET /health.
HealthBody == [status |-> "healthy", service |-> "ai-career-agent"]

\* ------------------------------------------------------------------ handler
\* Line 56 accepting every 2xx status.
StatusOkAny2xx(status) == status \in 200..299

\* Line 56: the status the handler goes on with.
StatusOk(status) == status = 200

\* The first field of the prompt template missing from the data, "" if none.
FirstMissing(data) ==
  IF \A i \in 1..Len(PromptFields) : PromptFields[i] \in DOMAIN data
  THEN ""
  ELSE PromptFields[CHOOSE i \in 1..Len(PromptFields) :
         /\ PromptFields[i] \notin DOMAIN data
         /\ \A k \in 1..(i - 1) : PromptFields[k] \in DOMAIN data]

\* Lines 64-92: the values the template renders, in order.
Prompt(data) == [i \in 1..Len(PromptFields) |-> data[PromptFields[i]]]

\* Lines 48-54: the handler starts and issues the GET, then suspends.
Start(r, uid) ==
  /\ running = 0
  /\ pc[r] = "idle"
  /\ pc' = [pc EXCEPT ![r] = "fetching"]
  /\ userId' = [userId EXCEPT ![r] = uid]
  /\ gets' = [gets EXCEPT ![r] = @ + 1]
  /\ UNCHANGED <<upstream, user_data, prompt, modelOut, ai_text, resp,
                 modelCalls, running, hpc, hresp, notFoundStr>>

\* Lines 52-59: the GET ends and the handler resumes.  A transport error,
\* the HTTPException of line 57 and the JSONDecodeError of response.json()
\* all reach the except Exception of line 133.
FetchDone(r, out) ==
  /\ running = 0
  /\ pc[r] = "fetching"
  /\ upstream' = [upstream EXCEPT ![r] = out]
  /\ IF out.kind = "error"
     THEN /\ resp' = [resp EXCEPT ![r] = AnalysisFailed(out.msg)]
          /\ pc' = [pc EXCEPT ![r] = "done"]
          /\ UNCHANGED user_data
     ELSE IF ~StatusOk(out.status)
     THEN /\ resp' = [resp EXCEPT ![r] = AnalysisFailed(notFoundStr)]
          /\ pc' = [pc EXCEPT ![r] = "done"]
          /\ UNCHANGED user_data
     ELSE IF out.body.kind = "notjson"
     THEN /\ resp' = [resp EXCEPT ![r] =
                        AnalysisFailed("Expecting value: line 1 column 1 (char 0)")]
          /\ pc' = [pc EXCEPT ![r] = "done"]
          /\ UNCHANGED user_data
     ELSE /\ user_data' = [user_data EXCEPT ![r] = out.body]
          /\ pc' = [pc EXCEPT ![r] = "fetched"]
          /\ UNCHANGED resp
  /\ UNCHANGED <<userId, prompt, modelOut, ai_text, gets, modelCalls,
                 running, hpc, hresp, notFoundStr>>

\* Lines 62-94: after the client is closed the handler builds the prompt
\* (TypeError on a body that is no object, KeyError on a missing field) and
\* calls generate_content, a synchronous call that keeps the event loop
\* until it returns.
BuildAndCall(r) ==
  /\ running = 0
  /\ pc[r] = "fetched"
  /\ IF user_data[r].kind # "object"
     THEN /\ resp' = [resp EXCEPT ![r] =
                        AnalysisFailed("list indices must be integers or slices, not str")]
          /\ pc' = [pc EXCEPT ![r] = "done"]
          /\ UNCHANGED <<prompt, modelCalls, running>>
     ELSE IF FirstMissing(user_data[r].data) # ""
     THEN /\ resp' = [resp EXCEPT ![r] =
                        AnalysisFailed("'" \o FirstMissing(user_data[r].data) \o "'")]
          /\ pc' = [pc EXCEPT ![r] = "done"]
          /\ UNCHANGED <<prompt, modelCalls, running>>
     ELSE /\ prompt' = [prompt EXCEPT ![r] = Prompt(user_data[r].data)]
          /\ modelCalls' = [modelCalls EXCEPT ![r] = @ + 1]
          /\ running' = r
          /\ pc' = [pc EXCEPT ![r] = "model"]
          /\ UNCHANGED resp
  /\ UNCHANGED <<userId, upstream, user_data, modelOut, ai_text, gets, hpc, hresp, notFoundStr>>

\* Lines 94-134 with the model call issued again after it raised.
ModelReturnRetry(r, outs) ==
  /\ pc[r] = "model"
  /\ running = r
  /\ \E out \in outs :
       /\ modelOut' = [modelOut EXCEPT ![r] = out]
       /\ running' = 0
       /\ IF out.kind = "text"
          THEN /\ ai_text' = [ai_text EXCEPT ![r] = ExtractText(out.text)]
               /\ resp' = [resp EXCEPT ![r] =
                             Envelope(userId[r], user_data[r].data["profile"],
                                      Recommendation(ExtractText(out.text)))]
               /\ pc' = [pc EXCEPT ![r] = "done"]
          ELSE IF modelCalls[r] < 2
          THEN /\ pc' = [pc EXCEPT ![r] = "fetched"]
               /\ UNCHANGED <<ai_text, resp>>
          ELSE /\ resp' = [resp EXCEPT ![r] = AnalysisFailed(out.msg)]
               /\ pc' = [pc EXCEPT ![r] = "done"]
               /\ UNCHANGED ai_text
       /\ UNCHANGED <<userId, upstream, user_data, prompt, gets, modelCalls, hpc, hresp, notFoundStr>>

\* Lines 94-134: generate_content returns or raises; the text is extracted
\* and parsed and the envelope returned.  Only JSONDecodeError is caught by
\* the inner except; an exception of generate_content and the ValueError of
\* response.text reach the except Exception of line 133.
ModelReturn(r, outs) ==
  /\ pc[r] = "model"
  /\ running = r
  /\ \E out \in outs :
       /\ modelOut' = [modelOut EXCEPT ![r] = out]
       /\ running' = 0
       /\ pc' = [pc EXCEPT ![r] = "done"]
       /\ IF out.kind = "text"
          THEN /\ ai_text' = [ai_text EXCEPT ![r] = ExtractText(out.text)]
               /\ resp' = [resp EXCEPT ![r] =
                             Envelope(userId[r], user_data[r].data["profile"],
                                      Recommendation(ExtractText(out.text)))]
          ELSE /\ resp' = [resp EXCEPT ![r] = AnalysisFailed(out.msg)]
               /\ UNCHANGED ai_text
       /\ UNCHANGED <<userId, upstream, user_data, prompt, gets, modelCalls, hpc, hresp, notFoundStr>>

\* ------------------------------------------------------------------- health
\* A client sends GET /health.
HealthArrive(h) ==
  /\ hpc[h] = "idle"
  /\ hpc' = [hpc EXCEPT ![h] = "arrived"]
  /\ UNCHANGED <<reqVars, hresp>>

\* Lines 42-44: health_check runs on the event loop, when it is free.
HealthRespond(h) ==
  /\ running = 0
  /\ hpc[h] = "arrived"
  /\ hpc' = [hpc EXCEPT ![h] = "done"]
  /\ hresp' = [hresp EXCEPT ![h] = HealthBody]
  /\ UNCHANGED reqVars

\* ------------------------------------------------------------ specifications
\* The service with NumReqs analysis requests and NumHealth health requests
\* in flight.
Next ==
  \/ \E r \in Reqs, uid \in UserIds : Start(r, uid)
  \/ \E r \in Reqs, out \in ConcurrentUpstreamOutcomes : FetchDone(r, out)
  \/ \E r \in Reqs : BuildAndCall(r)
  \/ \E r \in Reqs : ModelReturn(r, ModelOutcomes(ConcurrentTexts))
  \/ \E h \in Healths : HealthArrive(h)
  \/ \E h \in Healths : HealthRespond(h)

Spec == Init /\ [][Next]_vars

\* One analysis request, the model answering with any text of Texts.
NextOne ==
  \/ \E uid \in UserIds : Start(1, uid)
  \/ \E out \in UpstreamOutcomes : FetchDone(1, out)
  \/ BuildAndCall(1)
  \/ ModelReturn(1, ModelOutcomes(Texts))

SpecOne == Init /\ [][NextOne]_vars

\* =================================================================== claims
\* What the claims speak of, stated on the text itself and not through the
\* handler's split calls.

\* a fence labelled json opens at position i of t
JsonLabelAt(t, i) ==
  /\ i \in 1..(Len(t) - 1)
  /\ t[i] = FENCE
  /\ t[i + 1] = JSONLABEL

\* the part of t from position i up to the next fence delimiter (or the end)
UpToNextFence(t, i) ==
  IF \E k \in i..Len(t) : t[k] = FENCE
  THEN SubSeq(t, i, (CHOOSE k \in i..Len(t) :
                       /\ t[k] = FENCE
                       /\ \A m \in i..(k - 1) : t[m] # FENCE) - 1)
  ELSE SubSeq(t, i, Len(t))

\* t[i..k] is a closed fenced block labelled json
JsonBlock(t, i, k) ==
  /\ JsonLabelAt(t, i)
  /\ k \in (i + 2)..Len(t)
  /\ t[k] = FENCE
  /\ \A m \in (i + 2)..(k - 1) : t[m] # FENCE

\* the fence at position i opens a block: fences pair up from the start of
\* the text, so an even number of fences precedes an opening one
OpeningFence(t, i) ==
  /\ i \in 1..Len(t)
  /\ t[i] = FENCE
  /\ Cardinality({m \in 1..(i - 1) : t[m] = FENCE}) % 2 = 0

\* the block is the first one labelled json
FirstJsonBlock(t, i, k) ==
  /\ JsonBlock(t, i, k)
  /\ \A m \in 1..(i - 1) : ~JsonLabelAt(t, m)

\* The three-way precedence of the text handed to the parser.
ExpectedParserInput(t) ==
  IF \E i \in 1..Len(t) : JsonLabelAt(t, i)
  THEN UpToNextFence(t, (CHOOSE i \in 1..Len(t) :
                           /\ JsonLabelAt(t, i)
                           /\ \A m \in 1..(i - 1) : ~JsonLabelAt(t, m)) + 2)
  ELSE IF \E i \in 1..Len(t) : t[i] = FENCE
       THEN UpToNextFence(t, (CHOOSE i \in 1..Len(t) :
                                /\ t[i] = FENCE
                                /\ \A m \in 1..(i - 1) : t[m] # FENCE) + 1)
       ELSE t

EnvelopeFields ==
  {"kind", "status", "success", "userId", "userProfile", "analysis", "confidence"}

ErrorFields == {"kind", "status", "detail"}

GotText(r) == pc[r] = "done" /\ modelOut[r].kind = "text"

GotNon200(r) == upstream[r].kind = "response" /\ upstream[r].status # 200

\* ---------------------------------------------------------------------- C1
\* C1: every request whose upstream GET completes with a status other than
\* 200 is answered with HTTP 404 and detail "User data not found".
C1_NotFoundReachesCaller ==
  \A r \in Reqs :
    (pc[r] = "done" /\ GotNon200(r))
      => resp[r] = HttpError(404, "User data not found")

\* ---------------------------------------------------------------------- C2
\* C2: if the upstream GET returns a status other than 200, the model is
\* never invoked for that request: no prompt is built, no call issued and
\* no model outcome received, up to and after its final response.
C2_NoModelCallOnNon200 ==
  \A r \in Reqs :
    GotNon200(r) =>
      /\ modelCalls[r] = 0
      /\ modelOut[r] = None
      /\ prompt[r] = <<>>
      /\ pc[r] = "done"

C2_Witness ==
  \E r \in Reqs :
    /\ pc[r] = "done"
    /\ upstream[r].kind = "response"
    /\ upstream[r].status = 204
    /\ upstream[r].body.kind = "object"
    /\ modelCalls[r] = 0

\* ---------------------------------------------------------------------- C3
\* C3 as stated: when the model output contains a fenced block labelled
\* json whose content is valid JSON of the recommendation shape, the
\* request succeeds and analysis equals the parsed content of that block.
\* Stated for the blocks whose opening fence is an opening fence of the
\* text, which every reading of "fenced block" includes.
C3_AnyJsonBlockReturned ==
  \A r \in Reqs :
    GotText(r) =>
      \A i \in 1..Len(modelOut[r].text), k \in 1..Len(modelOut[r].text) :
        ( /\ JsonBlock(modelOut[r].text, i, k)
          /\ OpeningFence(modelOut[r].text, i)
          /\ IsRecommendationShape(JsonLoads(SubSeq(modelOut[r].text, i + 2, k - 1))) )
        => /\ resp[r].kind = "envelope"
           /\ resp[r].analysis = JsonLoads(SubSeq(modelOut[r].text, i + 2, k - 1))

\* C3 amended: the same, for the block opened by the first fence delimiter
\* of the model output that is immediately followed by json.
C3_FirstJsonBlockReturned ==
  \A r \in Reqs :
    GotText(r) =>
      \A i \in 1..Len(modelOut[r].text), k \in 1..Len(modelOut[r].text) :
        ( /\ FirstJsonBlock(modelOut[r].text, i, k)
          /\ IsRecommendationShape(JsonLoads(SubSeq(modelOut[r].text, i + 2, k - 1))) )
        => /\ resp[r].kind = "envelope"
           /\ resp[r].success = TRUE
           /\ resp[r].analysis = JsonLoads(SubSeq(modelOut[r].text, i + 2, k - 1))
           /\ resp[r].analysis # Fallback
           /\ DOMAIN resp[r] = EnvelopeFields

\* a valid json block that follows prose and an unlabelled block
C3_Witness ==
  \E r \in Reqs :
    /\ GotText(r)
    /\ \E i \in 3..Len(modelOut[r].text), k \in 1..Len(modelOut[r].text) :
         /\ FirstJsonBlock(modelOut[r].text, i, k)
         /\ IsRecommendationShape(JsonLoads(SubSeq(modelOut[r].text, i + 2, k - 1)))
         /\ \E m \in 1..(i - 1) : modelOut[r].text[m] = FENCE
    /\ resp[r].kind = "envelope"
    /\ resp[r].analysis = RecValue

\* ---------------------------------------------------------------------- C4
\* C4: when the model returns text that, after fence stripping, is not
\* valid JSON, the request returns the envelope with success = true,
\* confidence = "high" and analysis equal to the fixed fallback object.
C4_FallbackOnInvalidJson ==
  \A r \in Reqs :
    (GotText(r) /\ JsonLoads(ExpectedParserInput(modelOut[r].text)) = NoValue)
      => /\ resp[r].kind = "envelope"
         /\ resp[r].status = 200
         /\ resp[r].success = TRUE
         /\ resp[r].confidence = "high"
         /\ resp[r].analysis = Fallback
         /\ resp[r].analysis.fields.primaryGoal
              = "Build technical skills for career advancement"
         /\ resp[r].analysis.fields.recommendedSkills
              = <<"Data Analysis", "Python Programming", "Communication">>

\* prose around an unlabelled block of prose: JSON nowhere
C4_Witness ==
  \E r \in Reqs :
    /\ GotText(r)
    /\ \A i \in 1..Len(modelOut[r].text), k \in 1..Len(modelOut[r].text) :
         JsonLoads(SubSeq(modelOut[r].text, i, k)) = NoValue
    /\ Len(modelOut[r].text) > 1
    /\ \E i \in 1..Len(modelOut[r].text) : modelOut[r].text[i] = FENCE
    /\ resp[r].kind = "envelope"
    /\ resp[r].analysis = Fallback

\* ---------------------------------------------------------------------- C5
\* C5: a health request that has arrived can be answered whatever the
\* analysis requests are doing: its answer does not wait on an outbound
\* call of an analysis request.
C5_HealthNeverWaits ==
  \A h \in Healths : hpc[h] = "arrived" => ENABLED HealthRespond(h)

\* ---------------------------------------------------------------------- C6
\* C6: every failure other than upstream-not-found yields HTTP 500 with
\* detail "Analysis failed: " followed by the failure message and no
\* envelope; a request ends in exactly one of a full envelope and an error
\* response, and nothing is sent before it ends.
C6_FailureMessage(r) ==
  IF upstream[r].kind = "error" THEN upstream[r].msg
  ELSE IF upstream[r].body.kind = "notjson"
       THEN "Expecting value: line 1 column 1 (char 0)"
  ELSE IF upstream[r].body.kind = "array"
       THEN "list indices must be integers or slices, not str"
  ELSE IF \E f \in PromptFieldSet : f \notin DOMAIN upstream[r].body.data
       THEN "'" \o FirstMissing(upstream[r].body.data) \o "'"
  ELSE modelOut[r].msg

C6_Failed(r) ==
  /\ pc[r] = "done"
  /\ ~GotNon200(r)
  /\ \/ upstream[r].kind = "error"
     \/ upstream[r].body.kind # "object"
     \/ \E f \in PromptFieldSet : f \notin DOMAIN upstream[r].body.data
     \/ modelOut[r].kind \in {"raise", "notext"}

C6_FailuresAre500 ==
  \A r \in Reqs :
    /\ C6_Failed(r) =>
         /\ resp[r] = [kind |-> "error", status |-> 500,
                       detail |-> "Analysis failed: " \o C6_FailureMessage(r)]
         /\ DOMAIN resp[r] = ErrorFields
    /\ pc[r] = "done" =>
         \/ resp[r].kind = "envelope" /\ DOMAIN resp[r] = EnvelopeFields
         \/ resp[r].kind = "error" /\ DOMAIN resp[r] = ErrorFields
    /\ pc[r] # "done" => resp[r] = None

\* a request that failed on a field missing from the fetched data
C6_Witness ==
  \E r \in Reqs :
    /\ C6_Failed(r)
    /\ upstream[r].kind = "response"
    /\ upstream[r].body.kind = "object"
    /\ "goals" \notin DOMAIN upstream[r].body.data
    /\ resp[r].detail = "Analysis failed: 'goals'"

\* ---------------------------------------------------------------------- C7
\* C7: within one request exactly one upstream GET is issued, the model
\* call is issued only after that GET completed with status 200, a JSON
\* body and all prompt fields present, at most one model call is issued,
\* and no outbound call is issued again after a failure.
C7_SequentialNoRetry ==
  \A r \in Reqs :
    /\ gets[r] = (IF pc[r] = "idle" THEN 0 ELSE 1)
    /\ modelCalls[r] \in {0, 1}
    /\ modelCalls[r] = 1 =>
         /\ upstream[r].kind = "response"
         /\ upstream[r].status = 200
         /\ upstream[r].body.kind = "object"
         /\ PromptFieldSet \subseteq DOMAIN upstream[r].body.data
    /\ pc[r] = "fetching" => (upstream[r] = None /\ modelCalls[r] = 0)
    /\ modelOut[r] # None => pc[r] = "done"

\* a request whose model call raised and was not issued again
C7_Witness ==
  \E r \in Reqs :
    /\ pc[r] = "done"
    /\ modelOut[r].kind = "raise"
    /\ gets[r] = 1
    /\ modelCalls[r] = 1

\* ---------------------------------------------------------------------- C8
\* C8: the analysis of a success envelope is an object of the
\* CareerRecommendation shape parsed from the model text or the fixed
\* fallback, and a failure to obtain or parse the model text never fails
\* the request.
C8_AnalysisHasShape ==
  \A r \in Reqs :
    /\ (pc[r] = "done" /\ resp[r].kind = "envelope")
         => (IsRecommendationShape(resp[r].analysis) \/ resp[r].analysis = Fallback)
    /\ (pc[r] = "done" /\ modelOut[r].kind \in {"text", "notext"})
         => resp[r].kind = "envelope"

\* ---------------------------------------------------------------------- C9
\* C9: the text handed to the JSON parser is the content of the json
\* labelled block if the model text has one, else the content of the first
\* fenced block if it has one, else the raw text unmodified.
C9_ParserInputPrecedence ==
  \A r \in Reqs :
    GotText(r) => ai_text[r] = ExpectedParserInput(modelOut[r].text)

\* a json labelled block preferred over an unlabelled block before it
C9_Witness ==
  \E r \in Reqs :
    /\ GotText(r)
    /\ \E i \in 1..Len(modelOut[r].text) :
         /\ JsonLabelAt(modelOut[r].text, i)
         /\ \E m \in 1..(i - 1), n \in 1..(i - 1) :
              /\ m < n
              /\ modelOut[r].text[m] = FENCE
              /\ modelOut[r].text[n] = FENCE
              /\ ~JsonLabelAt(modelOut[r].text, m)
    /\ ai_text[r] = <<WSTOK, RECTOK, WSTOK>>

\* --------------------------------------------------------------------- C10
\* C10: under every interleaving each success envelope carries the userId
\* of its own request, the profile of the body fetched for that request and
\* an analysis derived from the model response to that request's own
\* prompt; the response of a request is determined by its own inputs, and
\* once sent it is not changed by another request.
C10_OwnInputs(r) == <<userId[r], upstream[r], modelOut[r]>>

C10_Isolation ==
  /\ \A r \in Reqs :
       (pc[r] = "done" /\ resp[r].kind = "envelope") =>
         /\ resp[r].userId = userId[r]
         /\ upstream[r].kind = "response"
         /\ upstream[r].body.kind = "object"
         /\ resp[r].userProfile = upstream[r].body.data["profile"]
         /\ prompt[r] = Prompt(upstream[r].body.data)
         /\ modelOut[r].kind = "text"
         /\ resp[r].analysis =
              (IF JsonLoads(ExpectedParserInput(modelOut[r].text)) = NoValue
               THEN Fallback
               ELSE JsonLoads(ExpectedParserInput(modelOut[r].text)))
  /\ \A r \in Reqs, q \in Reqs :
       (pc[r] = "done" /\ pc[q] = "done" /\ C10_OwnInputs(r) = C10_OwnInputs(q))
         => resp[r] = resp[q]

\* two requests answered with envelopes for different users and profiles
C10_Witness ==
  \E r \in Reqs, q \in Reqs :
    /\ pc[r] = "done" /\ resp[r].kind = "envelope"
    /\ pc[q] = "done" /\ resp[q].kind = "envelope"
    /\ resp[r].userId # resp[q].userId
    /\ resp[r].userProfile # resp[q].userProfile
    /\ resp[r].analysis # resp[q].analysis

====
